---- MODULE Spec2Model ----
(***************************************************************************)
(* Batch creation of Octo Browser profiles (main.py).                      *)
(*                                                                         *)
(* The module-level configuration code, load_proxies, load_cookies and     *)
(* the loop of main() are modelled as a sequential program whose position  *)
(* is pc.  The environment (process environment, the two input files and   *)
(* the remote API's answers) is nondeterministic.                          *)
(*                                                                         *)
(* Python strings are sequences of one-character strings, so that int()    *)
(* and str() are computed and not assumed.                                 *)
(***************************************************************************)
EXTENDS Integers, Sequences, FiniteSets, TLC

(* ------------------------------ bounds --------------------------------- *)
\* largest PROFILE_COUNT override tried
MaxCount == 3
\* largest number of rows of the proxies file
MaxPool == 2

(* ------------------------- program constants --------------------------- *)
\* if rpm < 10
RpmThreshold == 10
\* if rph < 10
RphThreshold == 10
\* time.sleep(60)
MinutePause == 60
\* time.sleep(3600)
HourPause == 3600

(* ------------------------------ strings -------------------------------- *)
DigitChars == <<"0", "1", "2", "3", "4", "5", "6", "7", "8", "9">>

Digits == {DigitChars[i] : i \in 1..10}

DigitVal(c) == CHOOSE d \in 0..9 : DigitChars[d + 1] = c

\* str.strip(): leading and trailing blanks removed
RECURSIVE Strip(_)
Strip(s) ==
    IF s = <<>> THEN s
    ELSE IF Head(s) = " " THEN Strip(Tail(s))
    ELSE IF s[Len(s)] = " " THEN Strip(SubSeq(s, 1, Len(s) - 1))
    ELSE s

\* the part of an int() literal after its sign
Unsigned(s) == IF s # <<>> /\ Head(s) \in {"-", "+"} THEN Tail(s) ELSE s

\* int(s) returns (TRUE) or raises ValueError (FALSE)
IsIntLiteral(s) ==
    LET b == Unsigned(Strip(s))
    IN  b # <<>> /\ \A i \in 1..Len(b) : b[i] \in Digits

RECURSIVE DigitsVal(_)
DigitsVal(s) ==
    IF s = <<>> THEN 0
    ELSE DigitsVal(SubSeq(s, 1, Len(s) - 1)) * 10 + DigitVal(s[Len(s)])

\* int(s) for a literal
IntOf(s) ==
    LET t == Strip(s)
    IN  IF Head(t) = "-" THEN 0 - DigitsVal(Unsigned(t)) ELSE DigitsVal(Unsigned(t))

\* str(n) for n >= 0
RECURSIVE StrOf(_)
StrOf(n) ==
    IF n < 10 THEN <<DigitChars[n + 1]>>
    ELSE StrOf(n \div 10) \o <<DigitChars[(n % 10) + 1]>>

\* dict.get(key, default)
DictGet(d, key, default) == IF key \in DOMAIN d THEN d[key] ELSE default

\* the empty dict
EmptyDict == [k \in {} |-> <<>>]

(* ----------------------- the environment's inputs ---------------------- *)
\* os.environ with OCTO_API_TOKEN set and PROFILE_COUNT unset
BaseEnv == [n \in {"OCTO_API_TOKEN"} |-> <<"t">>]

\* os.environ with OCTO_API_TOKEN set and PROFILE_COUNT = c
WithCount(c) ==
    [n \in {"OCTO_API_TOKEN", "PROFILE_COUNT"} |->
        IF n = "OCTO_API_TOKEN" THEN <<"t">> ELSE c]

\* os.environ without a usable token
NoTokenEnvs == {EmptyDict, [n \in {"OCTO_API_TOKEN"} |-> <<>>]}

\* values of PROFILE_COUNT that int() accepts
CountStrings == {<<"-", "1">>, <<"0">>} \cup {StrOf(n) : n \in 1..MaxCount}

CountEnvs == {BaseEnv} \cup {WithCount(c) : c \in CountStrings}

\* a row of proxies.csv as csv.DictReader yields it; an absent value is ""
ProxyRow(i, port) == [host |-> <<"h">> \o StrOf(i), port |-> port]

GoodPort == <<"8", "0">>

\* port values of a last row that is not a well-formed record
OddPorts == {<<"x">>, <<>>, <<" ">>}

\* proxies.csv with n well-formed rows
GoodFile(n) ==
    [exists |-> TRUE, sniffable |-> TRUE, rows |-> [i \in 1..n |-> ProxyRow(i, GoodPort)]]

\* proxies.csv with n rows, the last one with port p
OddFile(n, p) ==
    [exists |-> TRUE, sniffable |-> TRUE,
     rows |-> [i \in 1..n |-> ProxyRow(i, IF i = n THEN p ELSE GoodPort)]]

ProxyFiles ==
    {[exists |-> FALSE, sniffable |-> FALSE, rows |-> <<>>],
     [exists |-> TRUE, sniffable |-> FALSE, rows |-> <<>>]}
    \cup {GoodFile(n) : n \in 0..MaxPool}
    \cup {OddFile(n, p) : n \in 1..MaxPool, p \in OddPorts}

\* a cookie bundle: a list of (opaque) cookie objects
Bundle == <<"c1">>

\* cookies.json is absent
AbsentCookies == [exists |-> FALSE, json |-> "invalid", object |-> EmptyDict]

\* cookies.json holds the JSON object d
ObjectCookies(d) == [exists |-> TRUE, json |-> "object", object |-> d]

CookieFiles ==
    {AbsentCookies,
     [exists |-> TRUE, json |-> "invalid", object |-> EmptyDict],
     [exists |-> TRUE, json |-> "array", object |-> EmptyDict],
     ObjectCookies(EmptyDict),
     ObjectCookies([k \in {<<"1">>} |-> Bundle]),
     ObjectCookies([k \in {<<"0">>, <<"1">>} |-> IF k = <<"0">> THEN <<>> ELSE Bundle])}

\* the inputs of a run; remote tells how the remote API answers in it:
\* "any": every answer is possible at every item;
\* "one_failure": the third item is answered with an HTTP error status and
\*     every other item is created;
\* "healthy": every item is created and answered with both quota values at 10
Cfg(e, pf, cf, remote) ==
    [environ |-> e, proxyFile |-> pf, cookieFile |-> cf, remote |-> remote]

\* the run of 5 items over a pool of 2 proxies with one failure at item 3
OneFailureRun == Cfg(WithCount(<<"5">>), GoodFile(2), AbsentCookies, "one_failure")

\* the run over the pool [h1, h2, h3] with no override and cookies registered
\* under "1" only, every item created with healthy quota headers
HealthyRun ==
    Cfg(BaseEnv, GoodFile(3), ObjectCookies([k \in {<<"1">>} |-> Bundle]), "healthy")

\* the runs explored: every PROFILE_COUNT with every pool size, and every
\* token, proxies file and cookies file with the other inputs at a default
Configs ==
    {Cfg(e, GoodFile(MaxPool), AbsentCookies, "any") :
        e \in NoTokenEnvs \cup {WithCount(<<"x">>)}}
    \cup {Cfg(e, GoodFile(n), AbsentCookies, "any") : e \in CountEnvs, n \in 1..MaxPool}
    \cup {Cfg(BaseEnv, pf, AbsentCookies, "any") : pf \in ProxyFiles}
    \cup {Cfg(BaseEnv, GoodFile(MaxPool), cf, "any") : cf \in CookieFiles}
    \cup {OneFailureRun, HealthyRun}

\* HTTP status codes the remote API answers with
Statuses == {200, 304, 404, 500}

RpmHeader == "x-ratelimit-remaining"

RphHeader == "x-ratelimit-remaining-hour"

\* values of a quota header
HeaderValues == {<<"9">>, <<"1", "0">>, <<"x">>}

\* response.headers: each quota header present or not
HeaderDicts ==
    UNION {[S -> HeaderValues] : S \in SUBSET {RpmHeader, RphHeader}}

Responses == [status : Statuses, headers : HeaderDicts]

\* exceptions of requests.post that carry no HTTP response
TransportErrors == {"ConnectionError", "Timeout"}

\* the quota headers int() accepts
ParsableHeaderDicts ==
    {h \in HeaderDicts : \A n \in DOMAIN h : IsIntLiteral(h[n])}

\* the responses the remote API may give to item i
Answers(remote, i) ==
    IF remote = "any" THEN Responses
    ELSE IF remote = "healthy"
    THEN {[status |-> 200, headers |-> [n \in {RpmHeader, RphHeader} |-> <<"1", "0">>]]}
    ELSE IF i = 3 THEN {r \in Responses : r.status >= 400}
    ELSE {r \in Responses : r.status = 200 /\ r.headers \in ParsableHeaderDicts}

\* the transport errors item i may end in
Failures(remote, i) == IF remote = "any" THEN TransportErrors ELSE {}

\* bodies of a response: body.json()["data"]["uuid"]
Bodies(u) ==
    {[json |-> TRUE, hasData |-> TRUE, hasUuid |-> TRUE, uuid |-> u],
     [json |-> TRUE, hasData |-> TRUE, hasUuid |-> FALSE, uuid |-> <<>>],
     [json |-> TRUE, hasData |-> FALSE, hasUuid |-> FALSE, uuid |-> <<>>],
     [json |-> FALSE, hasData |-> FALSE, hasUuid |-> FALSE, uuid |-> <<>>]}

\* the identifier the server issues for its n-th created profile
ServerUuid(n) == <<"u">> \o StrOf(n)

\* the bodies the remote API may send with the answer to its n-th request
AnswerBodies(remote, n) ==
    IF remote = "any" THEN Bodies(ServerUuid(n))
    ELSE {b \in Bodies(ServerUuid(n)) : b.hasUuid}

(* ------------------------------- state --------------------------------- *)
VARIABLES
    pc,            \* position of the program
    cfg,           \* the inputs of the run: environ, proxies.csv, cookies.json
    TOKEN,         \* line 32
    PROFILE_COUNT, \* line 40
    proxies,       \* main: proxies
    cookies_map,   \* main: cookies_map
    total,         \* main: total
    cyclePos,      \* proxy_cycle: position of the record next() yields
    idx,           \* main: idx
    resp,          \* api_post: resp (e.response in the handler)
    pauses,        \* the time.sleep calls of the current api_post call
    slept,         \* the time spent in time.sleep so far
    owed,          \* the pauses called for by the signals check_limits has read
    owed2xx,       \* the part of owed that comes from responses with a 2xx status
    submitted,     \* the payloads posted so far
    outcomes,      \* the per-item lines printed so far
    err            \* the error that ended the run, if any

vars == <<pc, cfg, TOKEN, PROFILE_COUNT, proxies, cookies_map, total, cyclePos,
          idx, resp, pauses, slept, owed, owed2xx, submitted, outcomes, err>>

NoResp == [status |-> 0, headers |-> EmptyDict]

InitWith(c) ==
    /\ pc = "Idle"
    /\ cfg = c
    /\ TOKEN = <<>>
    /\ PROFILE_COUNT = 0
    /\ proxies = <<>>
    /\ cookies_map = EmptyDict
    /\ total = 0
    /\ cyclePos = 0
    /\ idx = 0
    /\ resp = NoResp
    /\ pauses = <<>>
    /\ slept = 0
    /\ owed = 0
    /\ owed2xx = 0
    /\ submitted = <<>>
    /\ outcomes = <<>>
    /\ err = "none"

Init == \E c \in Configs : InitWith(c)

\* sys.exit(message): the run ends with status 1
SysExit(message) ==
    /\ pc' = "Exit"
    /\ err' = message

\* an exception nothing catches: the run ends with a traceback, status 1
Uncaught(exception) ==
    /\ pc' = "Crashed"
    /\ err' = exception

\* the exit status of the process once the run has ended: 0 when main returns
ExitStatus == IF pc = "Done" THEN 0 ELSE 1

(* ----------------------- module-level configuration -------------------- *)
\* os.getenv(name, default)
Getenv(name, default) == DictGet(cfg.environ, name, default)

\* lines 32-40
Configure ==
    /\ pc = "Idle"
    /\ LET token == Getenv("OCTO_API_TOKEN", <<>>)
           count == Getenv("PROFILE_COUNT", <<"0">>)
       IN  IF token = <<>>
           THEN /\ SysExit("Specify OCTO_API_TOKEN")
                /\ UNCHANGED <<TOKEN, PROFILE_COUNT>>
           ELSE IF ~IsIntLiteral(count)
           THEN /\ Uncaught("ValueError: PROFILE_COUNT")
                /\ TOKEN' = token
                /\ UNCHANGED PROFILE_COUNT
           ELSE /\ pc' = "Loading"
                /\ TOKEN' = token
                /\ PROFILE_COUNT' = IntOf(count)
                /\ UNCHANGED err
    /\ UNCHANGED <<cfg, proxies, cookies_map, total, cyclePos, idx, resp, pauses,
                   slept, owed, owed2xx, submitted, outcomes>>

(* ------------------------------ loading -------------------------------- *)
\* line 58: the non-empty fields of a row, stripped
CleanRow(row) ==
    [k \in {f \in DOMAIN row : row[f] # <<>>} |-> Strip(row[k])]

\* lines 59-63: p["port"] raises KeyError
RowRejected(row) == "port" \notin DOMAIN CleanRow(row)

\* lines 48-69 and 113
LoadProxies ==
    /\ pc = "Loading"
    /\ LET f == cfg.proxyFile
       IN  IF ~f.exists
           THEN /\ SysExit("Proxies file not found")
                /\ UNCHANGED proxies
           ELSE IF ~f.sniffable
           THEN /\ Uncaught("csv.Error")
                /\ UNCHANGED proxies
           ELSE IF \E i \in 1..Len(f.rows) : RowRejected(f.rows[i])
           THEN /\ SysExit("Invalid proxy row")
                /\ UNCHANGED proxies
           ELSE IF f.rows = <<>>
           THEN /\ SysExit("No proxies loaded")
                /\ UNCHANGED proxies
           ELSE /\ pc' = "LoadingCookies"
                /\ proxies' = [i \in 1..Len(f.rows) |-> CleanRow(f.rows[i])]
                /\ UNCHANGED err
    /\ UNCHANGED <<cfg, TOKEN, PROFILE_COUNT, cookies_map, total, cyclePos, idx,
                   resp, pauses, slept, owed, owed2xx, submitted, outcomes>>

\* variant of LoadCookies: an absent cookies.json ends the run
LoadCookies_AbsentFatal ==
    /\ pc = "LoadingCookies"
    /\ IF cfg.cookieFile.exists /\ cfg.cookieFile.json = "object"
       THEN /\ pc' = "Loaded"
            /\ cookies_map' = cfg.cookieFile.object
            /\ UNCHANGED err
       ELSE /\ SysExit("cookies.json not usable")
            /\ UNCHANGED cookies_map
    /\ UNCHANGED <<cfg, TOKEN, PROFILE_COUNT, proxies, total, cyclePos, idx,
                   resp, pauses, slept, owed, owed2xx, submitted, outcomes>>

\* variant of LoadCookies: a malformed cookies.json counts as no cookies
LoadCookies_Lenient ==
    /\ pc = "LoadingCookies"
    /\ pc' = "Loaded"
    /\ cookies_map' = IF cfg.cookieFile.exists /\ cfg.cookieFile.json = "object"
                      THEN cfg.cookieFile.object
                      ELSE EmptyDict
    /\ UNCHANGED <<cfg, TOKEN, PROFILE_COUNT, proxies, total, cyclePos, idx,
                   resp, pauses, slept, owed, owed2xx, submitted, outcomes, err>>

\* lines 72-80 and 114
LoadCookies ==
    /\ pc = "LoadingCookies"
    /\ LET f == cfg.cookieFile
       IN  IF ~f.exists
           THEN /\ pc' = "Loaded"
                /\ cookies_map' = EmptyDict
                /\ UNCHANGED err
           ELSE IF f.json = "invalid"
           THEN /\ Uncaught("JSONDecodeError: cookies.json")
                /\ UNCHANGED cookies_map
           ELSE IF f.json # "object"
           THEN /\ SysExit("cookies.json must be a JSON object")
                /\ UNCHANGED cookies_map
           ELSE /\ pc' = "Loaded"
                /\ cookies_map' = f.object
                /\ UNCHANGED err
    /\ UNCHANGED <<cfg, TOKEN, PROFILE_COUNT, proxies, total, cyclePos, idx,
                   resp, pauses, slept, owed, owed2xx, submitted, outcomes>>

(* --------------------------- the loop of main -------------------------- *)
\* line 27
DEFAULT_FP == [os |-> "win", screen |-> "1920x1080"]

\* variant of Total: an override of 0 is taken as a count
Total_ZeroIsCount(count, pool) == IF count >= 0 THEN count ELSE Len(pool)

\* line 117
Total(count, pool) == IF count > 0 THEN count ELSE Len(pool)

\* next(itertools.cycle(pool)) at position pos: the record yielded
CycleItem(pool, pos) == pool[pos + 1]

\* variant of CycleAdvance: the iterator stays on the last record
CycleAdvance_NoWrap(pool, pos) == IF pos + 1 < Len(pool) THEN pos + 1 ELSE pos

\* next(itertools.cycle(pool)) at position pos: the position afterwards
CycleAdvance(pool, pos) == (pos + 1) % Len(pool)

\* variant of CookieKey: the key is the item's own index
CookieKey_OneBased(i) == StrOf(i)

\* line 123: the key looked up for item i
CookieKey(i) == StrOf(i - 1)

\* variant of HasCookies: every registered key attaches its bundle
HasCookies_KeyPresent(m, i) == StrOf(i - 1) \in DOMAIN m

\* line 130: cookies_map.get(str(idx - 1)) is neither None nor empty
HasCookies(m, i) == CookieKey(i) \in DOMAIN m /\ m[CookieKey(i)] # <<>>

\* lines 122-131
Payload(i, proxy, m) ==
    IF HasCookies(m, i)
    THEN [title |-> <<"BatchProfile_">> \o StrOf(i), proxy |-> proxy,
          fingerprint |-> DEFAULT_FP, cookies |-> m[CookieKey(i)]]
    ELSE [title |-> <<"BatchProfile_">> \o StrOf(i), proxy |-> proxy,
          fingerprint |-> DEFAULT_FP]

\* variant of raise_for_status: client errors do not raise
raise_for_status_ServerOnly(status) == 500 <= status /\ status < 600

\* line 86: Response.raise_for_status raises HTTPError on 4xx and 5xx
raise_for_status(status) ==
    (400 <= status /\ status < 500) \/ (500 <= status /\ status < 600)

\* lines 100-101: int(response.headers.get(name, 0)) returns
HeaderParses(headers, name) == name \notin DOMAIN headers \/ IsIntLiteral(headers[name])

\* lines 100-101: int(response.headers.get(name, 0))
HeaderInt(headers, name) == IF name \in DOMAIN headers THEN IntOf(headers[name]) ELSE 0

\* variant of MinutePauseDue: the threshold itself trips the pause
MinutePauseDue_Inclusive(rpm) == rpm <= RpmThreshold

\* line 104
MinutePauseDue(rpm) == rpm < RpmThreshold

\* variant of HourPauseDue: the threshold itself trips the pause
HourPauseDue_Inclusive(rph) == rph <= RphThreshold

\* line 107
HourPauseDue(rph) == rph < RphThreshold

\* line 135: the line printed for a created profile
Success(i, uuid) == [kind |-> "Success", index |-> i, uuid |-> uuid]

\* lines 137-138: the lines printed for an HTTP error
Failure(i, status) == [kind |-> "Failure", index |-> i, status |-> status]

\* lines 117-118
Begin ==
    /\ pc = "Loaded"
    /\ total' = Total(PROFILE_COUNT, proxies)
    /\ cyclePos' = 0
    /\ idx' = 1
    /\ pc' = "loop"
    /\ UNCHANGED <<cfg, TOKEN, PROFILE_COUNT, proxies, cookies_map, resp, pauses,
                   slept, owed, owed2xx, submitted, outcomes, err>>

\* variant of Iterate: the pool itself is rotated to yield its next record
Iterate_Rotating ==
    /\ pc = "loop"
    /\ idx <= total
    /\ submitted' = Append(submitted, Payload(idx, Head(proxies), cookies_map))
    /\ proxies' = Append(Tail(proxies), Head(proxies))
    /\ pauses' = <<>>
    /\ pc' = "post"
    /\ UNCHANGED <<cfg, TOKEN, PROFILE_COUNT, cookies_map, total, cyclePos, idx,
                   resp, slept, owed, owed2xx, outcomes, err>>

\* lines 120-134 and 84-85: the next item is built and posted
Iterate ==
    /\ pc = "loop"
    /\ idx <= total
    /\ submitted' = Append(submitted, Payload(idx, CycleItem(proxies, cyclePos), cookies_map))
    /\ cyclePos' = CycleAdvance(proxies, cyclePos)
    /\ pauses' = <<>>
    /\ pc' = "post"
    /\ UNCHANGED <<cfg, TOKEN, PROFILE_COUNT, proxies, cookies_map, total, idx,
                   resp, slept, owed, owed2xx, outcomes, err>>

\* line 120: range(1, total + 1) is exhausted, main returns
Finish ==
    /\ pc = "loop"
    /\ idx > total
    /\ pc' = "Done"
    /\ UNCHANGED <<cfg, TOKEN, PROFILE_COUNT, proxies, cookies_map, total, cyclePos,
                   idx, resp, pauses, slept, owed, owed2xx, submitted, outcomes, err>>

\* lines 85-86: requests.post returns the response r
Respond(r) ==
    /\ pc = "post"
    /\ resp' = r
    /\ pc' = IF raise_for_status(r.status) THEN "except" ELSE "check_limits"
    /\ UNCHANGED <<cfg, TOKEN, PROFILE_COUNT, proxies, cookies_map, total, cyclePos,
                   idx, pauses, slept, owed, owed2xx, submitted, outcomes, err>>

\* line 85: requests.post raises x, which is no HTTPError (lines 133-138)
TransportFail(x) ==
    /\ pc = "post"
    /\ Uncaught(x)
    /\ UNCHANGED <<cfg, TOKEN, PROFILE_COUNT, proxies, cookies_map, total, cyclePos,
                   idx, resp, pauses, slept, owed, owed2xx, submitted, outcomes>>

\* variant of AfterMinute: the hour check is skipped
AfterMinute_SkipHour(rph) == "json"

\* the position after the minute check of check_limits
AfterMinute(rph) == IF HourPauseDue(rph) THEN "sleep3600" ELSE "json"

\* lines 104-109: the time the two conditions of check_limits call for
Prescribed(rpm, rph) ==
    (IF rpm < RpmThreshold THEN MinutePause ELSE 0)
        + (IF rph < RphThreshold THEN HourPause ELSE 0)

\* lines 100-104
CheckLimits ==
    /\ pc = "check_limits"
    /\ IF HeaderParses(resp.headers, RpmHeader) /\ HeaderParses(resp.headers, RphHeader)
       THEN /\ pc' = IF MinutePauseDue(HeaderInt(resp.headers, RpmHeader))
                     THEN "sleep60"
                     ELSE AfterMinute(HeaderInt(resp.headers, RphHeader))
            /\ owed' = owed + Prescribed(HeaderInt(resp.headers, RpmHeader),
                                         HeaderInt(resp.headers, RphHeader))
            /\ owed2xx' = IF resp.status \in 200..299
                          THEN owed2xx + Prescribed(HeaderInt(resp.headers, RpmHeader),
                                                    HeaderInt(resp.headers, RphHeader))
                          ELSE owed2xx
            /\ UNCHANGED err
       ELSE /\ Uncaught("ValueError: quota header")
            /\ UNCHANGED <<owed, owed2xx>>
    /\ UNCHANGED <<cfg, TOKEN, PROFILE_COUNT, proxies, cookies_map, total, cyclePos,
                   idx, resp, pauses, slept, submitted, outcomes>>

\* lines 105-107
Sleep60 ==
    /\ pc = "sleep60"
    /\ pauses' = Append(pauses, MinutePause)
    /\ slept' = slept + MinutePause
    /\ pc' = AfterMinute(HeaderInt(resp.headers, RphHeader))
    /\ UNCHANGED <<cfg, TOKEN, PROFILE_COUNT, proxies, cookies_map, total, cyclePos,
                   idx, resp, owed, owed2xx, submitted, outcomes, err>>

\* variant of Sleep3600: the hour pause lasts a minute
Sleep3600_Short ==
    /\ pc = "sleep3600"
    /\ pauses' = Append(pauses, HourPause)
    /\ slept' = slept + MinutePause
    /\ pc' = "json"
    /\ UNCHANGED <<cfg, TOKEN, PROFILE_COUNT, proxies, cookies_map, total, cyclePos,
                   idx, resp, owed, owed2xx, submitted, outcomes, err>>

\* lines 108-109
Sleep3600 ==
    /\ pc = "sleep3600"
    /\ pauses' = Append(pauses, HourPause)
    /\ slept' = slept + HourPause
    /\ pc' = "json"
    /\ UNCHANGED <<cfg, TOKEN, PROFILE_COUNT, proxies, cookies_map, total, cyclePos,
                   idx, resp, owed, owed2xx, submitted, outcomes, err>>

\* lines 88 and 135: resp.json()["data"], then data["uuid"] is printed
ReturnData(body) ==
    /\ pc = "json"
    /\ IF ~body.json
       THEN /\ Uncaught("JSONDecodeError")
            /\ UNCHANGED <<idx, resp, outcomes>>
       ELSE IF ~(body.hasData /\ body.hasUuid)
       THEN /\ Uncaught("KeyError")
            /\ UNCHANGED <<idx, resp, outcomes>>
       ELSE /\ outcomes' = Append(outcomes, Success(idx, body.uuid))
            /\ idx' = idx + 1
            /\ resp' = NoResp
            /\ pc' = "loop"
            /\ UNCHANGED err
    /\ UNCHANGED <<cfg, TOKEN, PROFILE_COUNT, proxies, cookies_map, total, cyclePos,
                   pauses, slept, owed, owed2xx, submitted>>

\* variant of HandleHTTPError: the error is not caught and ends the run
HandleHTTPError_Uncaught ==
    /\ pc = "except"
    /\ Uncaught("HTTPError")
    /\ UNCHANGED <<cfg, TOKEN, PROFILE_COUNT, proxies, cookies_map, total, cyclePos,
                   idx, resp, pauses, slept, owed, owed2xx, submitted, outcomes>>

\* lines 136-138: except requests.HTTPError
HandleHTTPError ==
    /\ pc = "except"
    /\ outcomes' = Append(outcomes, Failure(idx, resp.status))
    /\ idx' = idx + 1
    /\ resp' = NoResp
    /\ pc' = "loop"
    /\ UNCHANGED <<cfg, TOKEN, PROFILE_COUNT, proxies, cookies_map, total, cyclePos,
                   pauses, slept, owed, owed2xx, submitted, err>>

(* --------------------------- specifications ---------------------------- *)
\* requests.post returns one of the responses the remote API may give
PostReturns == \E r \in Answers(cfg.remote, idx) : Respond(r)

\* requests.post raises one of the transport errors
PostRaises == \E x \in Failures(cfg.remote, idx) : TransportFail(x)

\* resp.json() reads one of the bodies the remote API may send
ReadBody == \E b \in AnswerBodies(cfg.remote, Len(submitted)) : ReturnData(b)

Next ==
    \/ Configure
    \/ LoadProxies
    \/ LoadCookies
    \/ Begin
    \/ Iterate
    \/ Finish
    \/ PostReturns
    \/ PostRaises
    \/ CheckLimits
    \/ Sleep60
    \/ Sleep3600
    \/ ReadBody
    \/ HandleHTTPError

Spec == Init /\ [][Next]_vars

(* ------------------------------ properties ----------------------------- *)
\* the loop of main has been entered
LoopStarted == idx >= 1

\* the run has ended
Ended == pc \in {"Done", "Exit", "Crashed"}

\* api_post holds a response that raise_for_status let through
Accepted == pc \in {"check_limits", "sleep60", "sleep3600", "json"}

TitleOf(i) == <<"BatchProfile_">> \o StrOf(i)

Rpm == HeaderInt(resp.headers, RpmHeader)

Rph == HeaderInt(resp.headers, RphHeader)

\* the loop is not stuck between two items
LoopGoesOn ==
    pc = "loop" =>
        \/ idx <= total /\ ENABLED Iterate
        \/ idx = total + 1 /\ ENABLED Finish

\* C1 as stated: every response whose status is not 2xx takes the failure
\* path; the failure path records Failure(idx) and goes on with the next item.
C1_NonSuccessResponseRecorded ==
    [][/\ (pc = "post" /\ resp' # NoResp /\ resp'.status \notin 200..299)
            => pc' = "except"
       /\ pc = "except"
            => /\ outcomes' = Append(outcomes, Failure(idx, resp.status))
               /\ idx' = idx + 1
               /\ pc' = "loop"]_vars

\* the run of 5 items over 2 proxies whose third item is answered with an
\* HTTP error ends with exactly 5 outcomes in order, the third a Failure
OneFailureRunOutcome ==
    cfg = OneFailureRun =>
        /\ pc \notin {"Exit", "Crashed"}
        /\ pc = "Done" =>
            /\ Len(outcomes) = 5
            /\ \A i \in 1..5 :
                /\ outcomes[i].index = i
                /\ outcomes[i].kind = IF i = 3 THEN "Failure" ELSE "Success"

\* C1 amended: every response with a 4xx or 5xx status takes the failure path;
\* the failure path records Failure(idx) and goes on with the next item (or
\* main returns after the last); the run of 5 items with such a response at
\* item 3 ends with 5 outcomes in order, the third a Failure, the rest Success.
C1_HttpErrorRecorded ==
    /\ [][/\ (pc = "post" /\ resp' # NoResp /\ resp'.status \in 400..599)
               => pc' = "except"
          /\ pc = "except"
               => /\ outcomes' = Append(outcomes, Failure(idx, resp.status))
                  /\ idx' = idx + 1
                  /\ pc' = "loop"]_vars
    /\ [](LoopGoesOn /\ OneFailureRunOutcome)

C1_Witness ==
    /\ cfg = OneFailureRun
    /\ pc = "Done"
    /\ Len(outcomes) = 5
    /\ outcomes[3] = Failure(3, 404)
    /\ outcomes[4].kind = "Success"

\* C2: a transport error of requests.post (timeout, no connection) never ends
\* the run: it is recorded as the Failure of its item.
C2_TransportErrorIsPerItem ==
    /\ pc = "Crashed" => err \notin TransportErrors
    /\ (pc = "Done" \/ pc = "loop") =>
          \A i \in 1..(idx - 1) : i <= Len(outcomes) /\ outcomes[i].index = i

\* C3: once the loop has started, the requests posted are those of the
\* indices 1, 2, ... in order, and the run ends with exactly 1..total posted.
C3_EveryIndexPostedOnce ==
    LoopStarted =>
        /\ Len(submitted) <= total
        /\ \A i \in 1..Len(submitted) : submitted[i].title = TitleOf(i)
        /\ Ended => Len(submitted) = total

\* C4: the request of item i carries the record at position (i-1) mod P of
\* the proxies file, whatever happened to the items before it.
C4_ProxyRotation ==
    \A i \in 1..Len(submitted) :
        LET P == Len(cfg.proxyFile.rows)
            k == ((i - 1) % P) + 1
        IN  /\ P >= 1
            /\ P = Len(proxies)
            /\ submitted[i].proxy = proxies[k]
            /\ submitted[i].proxy.host = cfg.proxyFile.rows[k].host

C4_Witness ==
    /\ Len(proxies) >= 2
    /\ Len(submitted) > Len(proxies)
    /\ \E i \in 1..Len(outcomes) : outcomes[i].kind = "Failure"
    /\ submitted[Len(submitted)].proxy = proxies[1]

\* the pauses the thresholds prescribe for the signal (rpm, rph)
ExpectedPauses(rpm, rph) ==
    (IF rpm < 10 THEN <<60>> ELSE <<>>) \o (IF rph < 10 THEN <<3600>> ELSE <<>>)

\* C5: when check_limits returns, it has slept 60 iff rpm < 10 and 3600 iff
\* rph < 10, the minute pause first; the hour pause is never slept before the
\* minute pause.
C5_GovernorPauses ==
    /\ pc = "json" => pauses = ExpectedPauses(Rpm, Rph)
    /\ pc = "sleep60" => Rpm < 10 /\ pauses = <<>>
    /\ pc = "sleep3600" => Rph < 10 /\ pauses = ExpectedPauses(Rpm, 10)

C5_Witness ==
    /\ pc = "json"
    /\ pauses = <<60, 3600>>
    /\ Rpm = 9
    /\ Rph = 9

\* the quota header is absent or int() rejects it
Unusable(name) ==
    name \notin DOMAIN resp.headers \/ ~IsIntLiteral(resp.headers[name])

\* C6: a quota header that is missing or unparsable counts as zero remaining:
\* its pause is slept and the item completes; it never ends the run.
C6_UnusableHeaderIsZero ==
    /\ (pc = "json" /\ Unusable(RpmHeader)) => 60 \in {pauses[i] : i \in DOMAIN pauses}
    /\ (pc = "json" /\ Unusable(RphHeader)) => 3600 \in {pauses[i] : i \in DOMAIN pauses}
    /\ (Accepted /\ (Unusable(RpmHeader) \/ Unusable(RphHeader))) => ENABLED Next
    /\ pc = "Crashed" => err # "ValueError: quota header"

\* no Success has been printed so far
NoSuccessYet == \A i \in 1..Len(outcomes) : outcomes[i].kind = "Failure"

\* C7 as stated: the program sleeps only while it holds a 2xx response.
C7_PauseOnlyAfterSuccess ==
    pc \in {"sleep60", "sleep3600"} => resp.status \in 200..299

\* C7 amended: the program sleeps only while it holds a response whose status
\* is below 400, and what it sleeps is set by that response's headers alone;
\* nothing is slept between posting and the response or after a response with
\* a 4xx or 5xx status, and nothing has been slept as long as no item got past
\* raise_for_status.
C7_PauseOnlyAfterAccepted ==
    /\ pc \in {"sleep60", "sleep3600"} => resp # NoResp /\ resp.status < 400
    /\ pc = "json" => pauses = ExpectedPauses(Rpm, Rph)
    /\ pc \in {"post", "except"} => pauses = <<>>
    /\ (NoSuccessYet /\ ~Accepted /\ pc # "Crashed") => slept = 0

C7_Witness ==
    /\ pc = "except"
    /\ resp.headers = [n \in {RpmHeader, RphHeader} |-> <<"9">>]
    /\ pauses = <<>>
    /\ Len(outcomes) >= 1
    /\ slept = 60

\* C8: every item has exactly one outcome, the outcomes are in index order,
\* and an item is posted only when every earlier item has its outcome.
C8_OneOutcomePerItem ==
    LoopStarted =>
        /\ \A i \in 1..Len(outcomes) : outcomes[i].index = i
        /\ Len(submitted) - Len(outcomes) \in {0, 1}
        /\ Ended => Len(outcomes) = total

\* C9: once the loop has started, a run in which every submission returned a
\* response ends only in Done, and Done is reached only after item total has
\* been processed.
C9_EndsOnlyInDone ==
    (LoopStarted /\ err \notin TransportErrors) =>
        /\ pc \notin {"Exit", "Crashed"}
        /\ pc = "Done" => idx = total + 1 /\ Len(outcomes) = total

\* PROFILE_COUNT as configured: 0 when unset
Override ==
    IF "PROFILE_COUNT" \in DOMAIN cfg.environ
    THEN IntOf(cfg.environ["PROFILE_COUNT"])
    ELSE 0

\* C10: total is the override when it is > 0 and the number of proxy records
\* otherwise; once the loop has started it is positive.
C10_TotalCount ==
    LoopStarted =>
        /\ total = IF Override > 0 THEN Override ELSE Len(cfg.proxyFile.rows)
        /\ total >= 1

C10_Witness ==
    /\ LoopStarted
    /\ "PROFILE_COUNT" \in DOMAIN cfg.environ
    /\ Override = -1
    /\ total = Len(proxies)
    /\ Len(outcomes) = total

\* the inputs hold a fatal configuration error: no credential, a missing or
\* empty proxy source, or a malformed cookie source
FatalConfig ==
    \/ DictGet(cfg.environ, "OCTO_API_TOKEN", <<>>) = <<>>
    \/ ~cfg.proxyFile.exists
    \/ cfg.proxyFile.rows = <<>>
    \/ cfg.cookieFile.exists /\ cfg.cookieFile.json # "object"

\* C11: a run with a fatal configuration error never enters the loop: it
\* posts nothing, prints no outcome, and ends with a non-zero exit status.
C11_FatalConfigEndsBeforeLoop ==
    FatalConfig =>
        /\ pc \in {"Idle", "Loading", "LoadingCookies", "Exit", "Crashed"}
        /\ ~LoopStarted
        /\ submitted = <<>>
        /\ outcomes = <<>>
        /\ Ended => ExitStatus # 0
        /\ ~Ended => ENABLED Next

C11_Witness ==
    /\ cfg.cookieFile.exists
    /\ cfg.cookieFile.json = "array"
    /\ pc = "Exit"
    /\ ExitStatus = 1
    /\ proxies # <<>>
    /\ submitted = <<>>

\* the mapping cookies.json registers (empty when the file is absent)
Registered == cfg.cookieFile.object

\* the cookies a posted payload carries
CookiesOf(payload) == IF "cookies" \in DOMAIN payload THEN payload.cookies ELSE <<>>

\* C12: the request of item i carries exactly the bundle registered under
\* str(i-1) when that key exists and no cookies when it does not; looking up
\* an absent key never stops the loop.
C12_CookieLookup ==
    /\ \A i \in 1..Len(submitted) :
        /\ StrOf(i - 1) \in DOMAIN Registered
              => CookiesOf(submitted[i]) = Registered[StrOf(i - 1)]
        /\ StrOf(i - 1) \notin DOMAIN Registered
              => "cookies" \notin DOMAIN submitted[i]
    /\ (pc = "loop" /\ idx <= total) => ENABLED Iterate

C12_Witness ==
    /\ cfg = HealthyRun
    /\ Len(submitted) = 3
    /\ "cookies" \notin DOMAIN submitted[1]
    /\ submitted[2].cookies = Bundle
    /\ "cookies" \notin DOMAIN submitted[3]
    /\ pc = "Done"

\* s is a non-empty string of digits
Numeric(s) == s # <<>> /\ \A j \in 1..Len(s) : s[j] \in Digits

\* C13: a proxies file with a record whose port is missing, empty or not
\* numeric never yields a pool; every record of the pool has a numeric port.
C13_PoolPortsNumeric ==
    /\ \A i \in 1..Len(proxies) :
          "port" \in DOMAIN proxies[i] /\ Numeric(proxies[i].port)
    /\ (\E i \in 1..Len(cfg.proxyFile.rows) : ~Numeric(cfg.proxyFile.rows[i].port))
          => proxies = <<>> /\ submitted = <<>>

CookiesAbsent == ~cfg.cookieFile.exists

CookiesMalformed == cfg.cookieFile.exists /\ cfg.cookieFile.json # "object"

\* the run was ended by load_cookies
EndedByCookies ==
    /\ pc \in {"Exit", "Crashed"}
    /\ ~LoopStarted
    /\ proxies # <<>>

\* C14 as stated: an absent or malformed cookies.json never ends the run; the
\* run goes on and posts every item without cookies.
C14_UnusableCookiesTolerated ==
    (CookiesAbsent \/ CookiesMalformed) =>
        /\ ~EndedByCookies
        /\ \A i \in 1..Len(submitted) : "cookies" \notin DOMAIN submitted[i]

\* C14 amended: an absent cookies.json never ends the run, which goes on with
\* an empty mapping and posts every item without cookies; a malformed
\* cookies.json ends the run before anything is posted.
C14_AbsentCookiesTolerated ==
    /\ CookiesAbsent =>
        /\ ~EndedByCookies
        /\ pc = "LoadingCookies" => ENABLED LoadCookies
        /\ (pc = "Loaded" \/ LoopStarted) => cookies_map = EmptyDict
        /\ \A i \in 1..Len(submitted) : "cookies" \notin DOMAIN submitted[i]
    /\ CookiesMalformed =>
        /\ pc # "Loaded"
        /\ ~LoopStarted
        /\ submitted = <<>>

C14_Witness ==
    /\ CookiesAbsent
    /\ pc = "Done"
    /\ Len(submitted) >= 2
    /\ \A i \in 1..Len(submitted) : "cookies" \notin DOMAIN submitted[i]

\* C19: a posted request has a cookies field iff a non-empty bundle is
\* registered under str(i-1), the field is never empty, and a key registered
\* with an empty bundle gives the request an absent key gives.
C19_NoEmptyCookiesField ==
    \A i \in 1..Len(submitted) :
        LET k == StrOf(i - 1)
        IN  /\ "cookies" \in DOMAIN submitted[i]
                  <=> (k \in DOMAIN Registered /\ Registered[k] # <<>>)
            /\ "cookies" \in DOMAIN submitted[i] => submitted[i].cookies # <<>>
            /\ (k \in DOMAIN Registered /\ Registered[k] = <<>>)
                  => submitted[i] = [title |-> TitleOf(i),
                                     proxy |-> submitted[i].proxy,
                                     fingerprint |-> [os |-> "win", screen |-> "1920x1080"]]

C19_Witness ==
    /\ <<"0">> \in DOMAIN Registered
    /\ Registered[<<"0">>] = <<>>
    /\ Len(submitted) >= 2
    /\ "cookies" \notin DOMAIN submitted[1]
    /\ "cookies" \in DOMAIN submitted[2]

\* C15: the exit status tells only whether the run ended before the loop: a
\* run that entered the loop ends with status 0, whatever its items' outcomes.
C15_LoadedRunExitsZero ==
    Ended => (ExitStatus = 0 <=> LoopStarted)

\* C16: in the run over [h1, h2, h3] with no override, cookies under "1" only
\* and every answer healthy, total is 3, item i uses the i-th record, only
\* item 2 carries cookies, nothing is slept, and the run ends with exactly
\* three Success outcomes.
C16_HealthyRun ==
    cfg = HealthyRun =>
        /\ pc \notin {"Exit", "Crashed"}
        /\ LoopStarted => total = 3
        /\ slept = 0
        /\ pauses = <<>>
        /\ \A i \in 1..Len(submitted) :
            /\ submitted[i].proxy.host = <<"h">> \o StrOf(i)
            /\ "cookies" \in DOMAIN submitted[i] <=> i = 2
        /\ \A i \in 1..Len(outcomes) : outcomes[i].kind = "Success" /\ outcomes[i].index = i
        /\ pc = "Done" => Len(outcomes) = 3 /\ Len(submitted) = 3

C16_Witness ==
    /\ cfg = HealthyRun
    /\ pc = "Done"
    /\ Len(outcomes) = 3
    /\ submitted[3].proxy.host = <<"h", "3">>
    /\ slept = 0

\* the last line printed is the Success of the item in hand
SuccessPrinted ==
    /\ Len(outcomes') = Len(outcomes) + 1
    /\ outcomes'[Len(outcomes')].kind = "Success"

\* C17: a Success is printed only when check_limits has returned for the
\* item's response with every pause the response calls for slept, and the next
\* item is posted only after that line: post, observe and pause, then Success.
C17_ObserveBeforeSuccess ==
    /\ [][/\ SuccessPrinted =>
               /\ pc = "json"
               /\ pauses = ExpectedPauses(Rpm, Rph)
               /\ pauses' = pauses
               /\ slept' = slept
               /\ Len(submitted) = Len(outcomes) + 1
          /\ Len(submitted') > Len(submitted) =>
               /\ pc = "loop"
               /\ Len(outcomes) = Len(submitted)]_vars
    /\ [](Accepted => Len(outcomes) = Len(submitted) - 1)

C17_Witness ==
    /\ pc = "post"
    /\ Len(submitted) = 2
    /\ outcomes = <<Success(1, <<"u", "1">>)>>
    /\ slept = 3660

\* C18: once loaded, the pool and the cookie mapping never change: in every
\* state of the loop they are what load_proxies and load_cookies returned.
C18_PoolAndCookiesFrozen ==
    /\ [][(pc \notin {"Idle", "Loading", "LoadingCookies"})
              => proxies' = proxies /\ cookies_map' = cookies_map]_vars
    /\ [](LoopStarted =>
            /\ Len(proxies) = Len(cfg.proxyFile.rows)
            /\ \A i \in 1..Len(proxies) : proxies[i].host = cfg.proxyFile.rows[i].host
            /\ cookies_map = Registered)

C18_Witness ==
    /\ pc = "Done"
    /\ Len(submitted) >= 2
    /\ Len(proxies) >= 2
    /\ cookies_map # EmptyDict
    /\ submitted[2].cookies = cookies_map[<<"1">>]

\* the number of Success lines printed so far
Successes == Cardinality({i \in 1..Len(outcomes) : outcomes[i].kind = "Success"})

\* C20 as stated: the time a completed run has spent asleep is the sum of
\* 60 * [rpm < 10] + 3600 * [rph < 10] over the items answered with a 2xx
\* status, every other item adding 0, and lies within 0 .. 3660 * successes.
C20_BlockedTimeOver2xx ==
    pc = "Done" =>
        /\ slept = owed2xx
        /\ slept >= 0
        /\ slept <= (MinutePause + HourPause) * Successes

\* C20: the time a completed run has spent asleep is the sum of
\* 60 * [rpm < 10] + 3600 * [rph < 10] over the items whose response
\* check_limits has read (those with no 4xx or 5xx status); the items recorded
\* as failed add 0, and the sum lies within 0 .. 3660 * (number of Success
\* outcomes). The same sum holds whenever the loop is between two items.
C20_BlockedTimeOverAccepted ==
    /\ pc \in {"Done", "loop"} =>
        /\ slept = owed
        /\ slept >= 0
        /\ slept <= (MinutePause + HourPause) * Successes
    /\ owed2xx <= owed
    /\ pc = "except" => slept = owed

C20_Witness ==
    /\ pc = "Done"
    /\ Len(outcomes) = 3
    /\ Successes = 2
    /\ outcomes[2].kind = "Failure"
    /\ slept = MinutePause + HourPause + HourPause
    /\ owed2xx = owed

====
